---- MODULE Spec2Model ----
(***************************************************************************)
(* Event ticketing domain of src/event_ticketing/main2.py: zones of        *)
(* tickets, buyers, orders, payments and refund requests.  Every method is *)
(* an operator over the object heap, every call a client can make is an    *)
(* action that applies the method and records the call and its return      *)
(* value in `call`.  Objects are heap cells: a zone is an index into       *)
(* `zones`, a ticket is the pair <<zone index, ticket id>>, an order, a    *)
(* payment and a refund request are indexes into `orders`, `payments` and  *)
(* `refunds`.  Prices are whole numbers (150.0 and 50.0 in the tests), so  *)
(* the sums of Order.add_ticket are exact.                                 *)
(*                                                                         *)
(* Specifications: Spec (buyers buying and refunding), SpecZone (one zone  *)
(* and get_available_tickets), SpecOrder (orders built by the client),     *)
(* SpecRefund (refund requests built by the client), SpecAll (every        *)
(* operation, one ticket) and SpecEvent (zones added to an empty event).   *)
(***************************************************************************)
EXTENDS Integers, Sequences, FiniteSets, TLC

\* ---------------------------------------------------------------- bounds
MaxZones == 2          \* Zone objects constructed in one run
MaxCapacity == 2       \* largest capacity passed to Zone(...)
HallCapacity == 4      \* Hall.capacity of the event's hall
MaxOrders == 1         \* Order objects constructed in one run
MaxOrderTickets == 2   \* tickets a client adds to one order by add_ticket
MaxRefunds == 1        \* RefundRequest objects constructed in one run
MaxPayments == 2      \* Payment objects built by the client
MaxQuantity == 3       \* largest quantity passed by a caller

Buyers == {"b1", "b2"}
ZoneTypes == {"VIP", "Regular"}
Prices == {50, 150}
Capacities == {-1, 0, 1, MaxCapacity}
PctQuarters == {-1, 1, 2}             \* percentage = k/4 (-0.25, 0.25, 0.5)
Quantities == (-1)..MaxQuantity
TicketIds == 1..MaxCapacity

\* ---------------------------------------------------------- enumerations
AVAILABLE == "AVAILABLE"
SOLD == "SOLD"
REFUNDED == "REFUNDED"
PENDING == "PENDING"
COMPLETED == "COMPLETED"
CANCELED == "CANCELED"
FAILED == "FAILED"
APPROVED == "APPROVED"
REJECTED == "REJECTED"
None == "None"
NoObj == 0             \* None where an object index is expected

VARIABLES
  zones,       \* heap of Zone objects: [type, capacity, price, tickets]
  eventZones,  \* Event.__zones: zone type -> zone index, NoObj when absent
  tstatus,     \* Ticket.__status of every ticket
  tbuyer,      \* Ticket.__buyer of every ticket
  btickets,    \* Buyer.__tickets of every buyer
  borders,     \* Buyer.__orders of every buyer
  orders,      \* heap of Order objects
  payments,    \* heap of Payment objects
  refunds,     \* heap of RefundRequest objects
  call,        \* the last call made by the client and what it returned
  threads      \* the buyers' threads inside Ticket.purchase, when concurrent

vars == <<zones, eventZones, tstatus, tbuyer, btickets, borders, orders,
          payments, refunds, call, threads>>

\* ---------------------------------------------------------------- helpers
Min(a, b) == IF a < b THEN a ELSE b
Max(a, b) == IF a > b THEN a ELSE b
Range(s) == {s[i] : i \in 1..Len(s)}

\* Python s[:n]
SlicePrefix(s, n) ==
  IF n >= 0 THEN SubSeq(s, 1, Min(n, Len(s)))
            ELSE SubSeq(s, 1, Max(Len(s) + n, 0))

\* Python int(x) of the quotient num/den, den > 0: truncation toward zero
IntTrunc(num, den) == IF num >= 0 THEN num \div den ELSE -((-num) \div den)

\* The mutable object graph the methods work on
Heap == [tstatus |-> tstatus, tbuyer |-> tbuyer, btickets |-> btickets,
         borders |-> borders, orders |-> orders, payments |-> payments,
         refunds |-> refunds]

Commit(h) ==
  /\ tstatus' = h.tstatus
  /\ tbuyer' = h.tbuyer
  /\ btickets' = h.btickets
  /\ borders' = h.borders
  /\ orders' = h.orders
  /\ payments' = h.payments
  /\ refunds' = h.refunds

Called(op, self, args, ret) ==
  call' = [op |-> op, self |-> self, args |-> args, ret |-> ret]

\* every buyer's thread outside any call; `atomic` tells whether a call of
\* Ticket.purchase runs as one step
NoThreads(atomic) ==
  [atomic |-> atomic,
   pc |-> [b \in Buyers |-> "idle"],
   ticket |-> [b \in Buyers |-> None],
   ret |-> [b \in Buyers |-> None]]

\* ------------------------------------------------------------------ Ticket
\* mutant: the status test is missing
TicketPurchase_NoStatusCheck(h, t, b) ==
  [h |-> [h EXCEPT !.tbuyer[t] = b,
                   !.tstatus[t] = SOLD,
                   !.btickets[b] = Append(@, t)],
   ret |-> TRUE]

\* mutant: the status is not written
TicketPurchase_NoStatusWrite(h, t, b) ==
  IF h.tstatus[t] = AVAILABLE
  THEN [h |-> [h EXCEPT !.tbuyer[t] = b,
                        !.btickets[b] = Append(@, t)],
        ret |-> TRUE]
  ELSE [h |-> h, ret |-> FALSE]

TicketPurchase(h, t, b) ==
  IF h.tstatus[t] = AVAILABLE
  THEN [h |-> [h EXCEPT !.tbuyer[t] = b,
                        !.tstatus[t] = SOLD,
                        !.btickets[b] = Append(@, t)],
        ret |-> TRUE]
  ELSE [h |-> h, ret |-> FALSE]

\* mutant: a refunded ticket goes back on sale
TicketRefund_BackOnSale(h, t) ==
  IF h.tstatus[t] = SOLD /\ h.tbuyer[t] # None
  THEN [h |-> [h EXCEPT !.tstatus[t] = AVAILABLE], ret |-> TRUE]
  ELSE [h |-> h, ret |-> FALSE]

TicketRefund(h, t) ==
  IF h.tstatus[t] = SOLD /\ h.tbuyer[t] # None
  THEN [h |-> [h EXCEPT !.tstatus[t] = REFUNDED], ret |-> TRUE]
  ELSE [h |-> h, ret |-> FALSE]

\* -------------------------------------------------------------------- Zone
\* Zone.__init__: tickets with ids range(1, capacity + 1)
NewZone(z, type, capacity, price) ==
  [type |-> type, capacity |-> capacity, price |-> price,
   tickets |-> [i \in 1..capacity |-> <<z, i>>]]

\* mutant: the status filter is missing
GetAvailableTickets_NoFilter(h, z, quantity) ==
  SlicePrefix(zones[z].tickets, quantity)

GetAvailableTickets(h, z, quantity) ==
  LET available_tickets ==
        SelectSeq(zones[z].tickets, LAMBDA t : h.tstatus[t] = AVAILABLE)
  IN  SlicePrefix(available_tickets, quantity)

\* ------------------------------------------------------------------- Init
\* The state after a scenario has built its event: one Zone per entry of
\* specs = <<type, capacity, price>>, each registered with Event.add_zone
\* (a later zone of the same type overwrites the earlier key), buyers with
\* no tickets and no orders.
EventOf(zs) ==
  [ty \in ZoneTypes |->
     LET hits == {z \in 1..Len(zs) : zs[z].type = ty}
     IN  IF hits = {} THEN NoObj ELSE CHOOSE z \in hits : \A y \in hits : y <= z]

InitWith(specs) ==
  /\ zones = [z \in 1..Len(specs) |->
                NewZone(z, specs[z][1], specs[z][2], specs[z][3])]
  /\ eventZones = EventOf(zones)
  /\ tstatus = [t \in UNION {Range(zones[z].tickets) : z \in 1..Len(zones)}
                  |-> AVAILABLE]
  /\ tbuyer = [t \in DOMAIN tstatus |-> None]
  /\ btickets = [b \in Buyers |-> <<>>]
  /\ borders = [b \in Buyers |-> <<>>]
  /\ orders = <<>>
  /\ payments = <<>>
  /\ refunds = <<>>
  /\ call = [op |-> "init", self |-> None, args |-> <<>>, ret |-> None]
  /\ threads = NoThreads(TRUE)

\* ----------------------------------------------------------------- Payment
NewPayment(h, id, o, amount) ==
  [h EXCEPT !.payments = Append(@, [id |-> id, order |-> o,
                                    amount |-> amount, status |-> PENDING])]

\* mutant: the test of `success` is inverted
ProcessPayment_Inverted(h, p, success) ==
  IF ~success
  THEN [h |-> [h EXCEPT !.payments[p].status = COMPLETED], ret |-> TRUE]
  ELSE [h |-> [h EXCEPT !.payments[p].status = FAILED], ret |-> FALSE]

\* mutant: the payment is declined whatever `success` says
ProcessPayment_Declined(h, p, success) ==
  [h |-> [h EXCEPT !.payments[p].status = FAILED], ret |-> FALSE]

ProcessPayment(h, p, success) ==
  IF success
  THEN [h |-> [h EXCEPT !.payments[p].status = COMPLETED], ret |-> TRUE]
  ELSE [h |-> [h EXCEPT !.payments[p].status = FAILED], ret |-> FALSE]

\* ------------------------------------------------------------------- Order
NewOrder(h, id, b) ==
  [h EXCEPT !.orders = Append(@, [id |-> id, buyer |-> b, tickets |-> <<>>,
                                  total_price |-> 0, status |-> PENDING])]

\* mutant: the price is not accumulated
OrderAddTicket_NoPrice(h, o, t) ==
  [h EXCEPT !.orders[o].tickets = Append(@, t)]

OrderAddTicket(h, o, t) ==
  [h EXCEPT !.orders[o].tickets = Append(@, t),
            !.orders[o].total_price = @ + zones[t[1]].price]

\* mutant: the status test is missing
OrderCompleteOrder_NoStatusCheck(h, o) ==
  LET b  == h.orders[o].buyer
      h1 == [h EXCEPT !.orders[o].status = COMPLETED]
      h2 == NewPayment(h1, Len(h1.borders[b]) + 1, o,
                       h1.orders[o].total_price)
      pay == ProcessPayment(h2, Len(h2.payments), TRUE)
  IN  IF pay.ret
      THEN [h |-> [pay.h EXCEPT !.borders[b] = Append(@, o)],
            ret |-> TRUE]
      ELSE [h |-> [pay.h EXCEPT !.orders[o].status = PENDING],
            ret |-> FALSE]

\* mutant: the completed order is not recorded in the buyer's orders
OrderCompleteOrder_NoAppend(h, o) ==
  IF h.orders[o].status = PENDING
  THEN LET b  == h.orders[o].buyer
           h1 == [h EXCEPT !.orders[o].status = COMPLETED]
           h2 == NewPayment(h1, Len(h1.borders[b]) + 1, o,
                            h1.orders[o].total_price)
           pay == ProcessPayment(h2, Len(h2.payments), TRUE)
       IN  IF pay.ret
           THEN [h |-> pay.h, ret |-> TRUE]
           ELSE [h |-> [pay.h EXCEPT !.orders[o].status = PENDING],
                 ret |-> FALSE]
  ELSE [h |-> h, ret |-> FALSE]

OrderCompleteOrder(h, o) ==
  IF h.orders[o].status = PENDING
  THEN LET b  == h.orders[o].buyer
           h1 == [h EXCEPT !.orders[o].status = COMPLETED]
           h2 == NewPayment(h1, Len(h1.borders[b]) + 1, o,
                            h1.orders[o].total_price)
           pay == ProcessPayment(h2, Len(h2.payments), TRUE)
       IN  IF pay.ret
           THEN [h |-> [pay.h EXCEPT !.borders[b] = Append(@, o)],
                 ret |-> TRUE]
           ELSE [h |-> [pay.h EXCEPT !.orders[o].status = PENDING],
                 ret |-> FALSE]
  ELSE [h |-> h, ret |-> FALSE]

\* mutant: the status test is missing
OrderCancelOrder_NoStatusCheck(h, o) ==
  [h |-> [h EXCEPT !.orders[o].status = CANCELED,
                   !.tstatus = [t \in DOMAIN h.tstatus |->
                                  IF t \in Range(h.orders[o].tickets)
                                  THEN AVAILABLE ELSE h.tstatus[t]]],
   ret |-> TRUE]

OrderCancelOrder(h, o) ==
  IF h.orders[o].status = PENDING
  THEN [h |-> [h EXCEPT !.orders[o].status = CANCELED,
                        !.tstatus = [t \in DOMAIN h.tstatus |->
                                       IF t \in Range(h.orders[o].tickets)
                                       THEN AVAILABLE ELSE h.tstatus[t]]],
        ret |-> TRUE]
  ELSE [h |-> h, ret |-> FALSE]

\* ----------------------------------------------------------- RefundRequest
NewRefundRequest(h, id, t, b) ==
  [h EXCEPT !.refunds = Append(@, [id |-> id, ticket |-> t, buyer |-> b,
                                   status |-> PENDING,
                                   refund_amount |-> zones[t[1]].price])]

ApproveRefund(h, r) ==
  IF h.refunds[r].status = PENDING
  THEN [h |-> TicketRefund([h EXCEPT !.refunds[r].status = APPROVED],
                           h.refunds[r].ticket).h,
        ret |-> TRUE]
  ELSE [h |-> h, ret |-> FALSE]

\* mutant: the status test is missing
RejectRefund_NoStatusCheck(h, r) ==
  [h |-> [h EXCEPT !.refunds[r].status = REJECTED], ret |-> TRUE]

RejectRefund(h, r) ==
  IF h.refunds[r].status = PENDING
  THEN [h |-> [h EXCEPT !.refunds[r].status = REJECTED], ret |-> TRUE]
  ELSE [h |-> h, ret |-> FALSE]

\* ------------------------------------------------------------------- Buyer
\* the loop `for ticket in available_tickets` of purchase_tickets, from
\* position i on; ret is FALSE when a Ticket.purchase failed and the loop
\* returned early
RECURSIVE PurchaseLoop(_, _, _, _, _)
PurchaseLoop(h, b, o, available_tickets, i) ==
  IF i > Len(available_tickets)
  THEN [h |-> h, ret |-> TRUE]
  ELSE LET ticket == available_tickets[i]
           p == TicketPurchase(h, ticket, b)
       IN  IF ~p.ret
           THEN [h |-> p.h, ret |-> FALSE]
           ELSE PurchaseLoop(OrderAddTicket(p.h, o, ticket), b, o,
                             available_tickets, i + 1)

\* mutant: the test len(available_tickets) < quantity is missing
PurchaseTickets_NoCountCheck(h, b, zone_type, quantity) ==
  LET zone == eventZones[zone_type]
  IN  IF zone = NoObj
      THEN [h |-> h, ret |-> NoObj]
      ELSE LET available_tickets == GetAvailableTickets(h, zone, quantity)
               h1 == NewOrder(h, Len(h.borders[b]) + 1, b)
               order == Len(h1.orders)
               l == PurchaseLoop(h1, b, order, available_tickets, 1)
           IN  IF ~l.ret
               THEN [h |-> l.h, ret |-> NoObj]
               ELSE LET c == OrderCompleteOrder(l.h, order)
                    IN  IF c.ret
                        THEN [h |-> c.h, ret |-> order]
                        ELSE [h |-> c.h, ret |-> NoObj]

PurchaseTickets(h, b, zone_type, quantity) ==
  LET zone == eventZones[zone_type]
  IN  IF zone = NoObj
      THEN [h |-> h, ret |-> NoObj]
      ELSE LET available_tickets == GetAvailableTickets(h, zone, quantity)
           IN  IF Len(available_tickets) < quantity
               THEN [h |-> h, ret |-> NoObj]
               ELSE LET h1 == NewOrder(h, Len(h.borders[b]) + 1, b)
                        order == Len(h1.orders)
                        l == PurchaseLoop(h1, b, order, available_tickets, 1)
                    IN  IF ~l.ret
                        THEN [h |-> l.h, ret |-> NoObj]
                        ELSE LET c == OrderCompleteOrder(l.h, order)
                             IN  IF c.ret
                                 THEN [h |-> c.h, ret |-> order]
                                 ELSE [h |-> c.h, ret |-> NoObj]

\* next((t for t in self.__tickets if t.id == ticket_id), None)
FindTicket(h, b, ticket_id) ==
  LET hits == SelectSeq(h.btickets[b], LAMBDA t : t[2] = ticket_id)
  IN  IF Len(hits) = 0 THEN None ELSE hits[1]

RequestRefund(h, b, ticket_id) ==
  LET ticket == FindTicket(h, b, ticket_id)
  IN  IF ticket = None
      THEN [h |-> h, ret |-> NoObj]
      ELSE IF h.tstatus[ticket] # SOLD
      THEN [h |-> h, ret |-> NoObj]
      ELSE LET h1 == NewRefundRequest(h, Len(h.borders[b]) + 1, ticket, b)
               refund_request == Len(h1.refunds)
               a == ApproveRefund(h1, refund_request)
           IN  IF a.ret
               THEN [h |-> a.h, ret |-> refund_request]
               ELSE [h |-> a.h, ret |-> NoObj]

\* ------------------------------------------------------------------- Event
\* Zone(type, capacity, price) followed by Event.add_zone(zone)
AddZone(type, capacity, price) ==
  /\ Len(zones) < MaxZones
  /\ LET z == Len(zones) + 1
         zone == NewZone(z, type, capacity, price)
     IN  /\ zones' = Append(zones, zone)
         /\ eventZones' = [eventZones EXCEPT ![zone.type] = z]
         /\ tstatus' = tstatus @@ [t \in Range(zone.tickets) |-> AVAILABLE]
         /\ tbuyer' = tbuyer @@ [t \in Range(zone.tickets) |-> None]

DoAddZone(type, capacity, price) ==
  /\ AddZone(type, capacity, price)
  /\ Called("add_zone", None, <<type, capacity, price>>, None)
  /\ UNCHANGED <<btickets, borders, orders, payments, refunds, threads>>

\* percentage = k/4, so hall.capacity * percentage is exact in binary
\* floating point and int() truncates it toward zero
DoAddZoneWithPercentage(zone_type, k, price) ==
  /\ AddZone(zone_type, IntTrunc(HallCapacity * k, 4), price)
  /\ Called("add_zone_with_percentage", None, <<zone_type, k, price>>, None)
  /\ UNCHANGED <<btickets, borders, orders, payments, refunds, threads>>

\* ----------------------------------------------------------- client calls
Tickets == DOMAIN tstatus

Do(op, self, args, r) ==
  /\ Commit(r.h)
  /\ Called(op, self, args, r.ret)
  /\ UNCHANGED <<zones, eventZones, threads>>

DoTicketPurchase(t, b) ==
  Do("purchase", t, <<b>>, TicketPurchase(Heap, t, b))

DoTicketRefund(t) ==
  Do("refund", t, <<>>, TicketRefund(Heap, t))

DoGetAvailableTickets(z, quantity) ==
  Do("get_available_tickets", z, <<quantity>>,
     [h |-> Heap, ret |-> GetAvailableTickets(Heap, z, quantity)])

DoPurchaseTickets(b, zone_type, quantity) ==
  LET r == PurchaseTickets(Heap, b, zone_type, quantity)
  IN  /\ Len(r.h.orders) <= MaxOrders
      /\ Do("purchase_tickets", b, <<zone_type, quantity>>, r)

DoRequestRefund(b, ticket_id) ==
  LET r == RequestRefund(Heap, b, ticket_id)
  IN  /\ Len(r.h.refunds) <= MaxRefunds
      /\ Do("request_refund", b, <<ticket_id>>, r)

\* Order(id, buyer) and RefundRequest(id, ticket, buyer) built by the client,
\* numbered as purchase_tickets and request_refund number them
DoNewOrder(b) ==
  /\ Len(orders) < MaxOrders
  /\ LET h == NewOrder(Heap, Len(borders[b]) + 1, b)
     IN  Do("Order", None, <<b>>, [h |-> h, ret |-> Len(h.orders)])

DoAddTicket(o, t) ==
  /\ Len(orders[o].tickets) < MaxOrderTickets
  /\ Do("add_ticket", o, <<t>>, [h |-> OrderAddTicket(Heap, o, t), ret |-> None])

DoCompleteOrder(o) ==
  Do("complete_order", o, <<>>, OrderCompleteOrder(Heap, o))

DoCancelOrder(o) ==
  Do("cancel_order", o, <<>>, OrderCancelOrder(Heap, o))

DoNewRefundRequest(t, b) ==
  /\ Len(refunds) < MaxRefunds
  /\ LET h == NewRefundRequest(Heap, Len(borders[b]) + 1, t, b)
     IN  Do("RefundRequest", None, <<t, b>>, [h |-> h, ret |-> Len(h.refunds)])

DoApproveRefund(r) ==
  Do("approve_refund", r, <<>>, ApproveRefund(Heap, r))

DoRejectRefund(r) ==
  Do("reject_refund", r, <<>>, RejectRefund(Heap, r))

\* Payment(id, order, amount) built by the client for an order's total, as
\* complete_order builds it
DoNewPayment(o) ==
  /\ Len(payments) < MaxPayments
  /\ LET h == NewPayment(Heap, Len(borders[orders[o].buyer]) + 1, o,
                         orders[o].total_price)
     IN  Do("Payment", None, <<o>>, [h |-> h, ret |-> Len(h.payments)])

DoProcessPayment(p, success) ==
  Do("process_payment", p, <<success>>, ProcessPayment(Heap, p, success))

\* ------------------------------------------- the minimal variant (main.py)
\* Zone(id, type, capacity, price) of main.py numbers its tickets from 0
MainNewZone(z, type, capacity, price) ==
  [type |-> type, capacity |-> capacity, price |-> price,
   tickets |-> [i \in 1..capacity |-> <<z, i - 1>>]]

\* Ticket.purchase(buyer) of main.py: no return value, no list append
MainTicketPurchase(h, t, b) ==
  IF h.tstatus[t] = AVAILABLE
  THEN [h EXCEPT !.tstatus[t] = SOLD, !.tbuyer[t] = b]
  ELSE h

\* Ticket.refund() of main.py
MainTicketRefund(h, t) ==
  IF h.tstatus[t] = SOLD
  THEN [h EXCEPT !.tstatus[t] = REFUNDED]
  ELSE h

\* Buyer.purchase(ticket) of main.py
MainBuyerPurchase(h, b, t) ==
  IF h.tstatus[t] = AVAILABLE
  THEN [MainTicketPurchase(h, t, b) EXCEPT !.btickets[b] = Append(@, t)]
  ELSE h

\* RefundRequest(ticket, buyer, refund_amount) of main.py
MainNewRefundRequest(h, t, b, refund_amount) ==
  [h EXCEPT !.refunds = Append(@, [ticket |-> t, buyer |-> b,
                                   refund_amount |-> refund_amount,
                                   status |-> PENDING])]

\* RefundRequest.approve_refund() of main.py
MainApproveRefund(h, r) ==
  LET t == h.refunds[r].ticket
  IN  IF h.tstatus[t] = SOLD
      THEN MainTicketRefund([h EXCEPT !.refunds[r].status = APPROVED], t)
      ELSE [h EXCEPT !.refunds[r].status = REJECTED]

DoMainBuyerPurchase(b, t) ==
  Do("purchase", b, <<t>>, [h |-> MainBuyerPurchase(Heap, b, t), ret |-> None])

DoMainTicketPurchase(t, b) ==
  Do("purchase", t, <<b>>, [h |-> MainTicketPurchase(Heap, t, b), ret |-> None])

DoMainTicketRefund(t) ==
  Do("refund", t, <<>>, [h |-> MainTicketRefund(Heap, t), ret |-> None])

DoMainNewRefundRequest(t, b) ==
  /\ Len(refunds) < MaxRefunds
  /\ LET h == MainNewRefundRequest(Heap, t, b, zones[t[1]].price)
     IN  Do("RefundRequest", None, <<t, b>>, [h |-> h, ret |-> Len(h.refunds)])

DoMainApproveRefund(r) ==
  Do("approve_refund", r, <<>>, [h |-> MainApproveRefund(Heap, r), ret |-> None])

\* --------------------------------- Ticket.purchase by concurrent threads
\* the whole call of ticket.purchase(b) as one step of b's thread
ThreadPurchase(b, t) ==
  /\ threads.atomic
  /\ threads.pc[b] = "idle"
  /\ LET r == TicketPurchase(Heap, t, b)
     IN  /\ Commit(r.h)
         /\ Called("purchase", t, <<b>>, r.ret)
         /\ threads' = [threads EXCEPT !.pc[b] = "done", !.ticket[b] = t,
                                       !.ret[b] = r.ret]
  /\ UNCHANGED <<zones, eventZones>>

\* `if self.__status == TicketStatus.AVAILABLE` as a step of its own; the
\* thread returns False at once when the test fails
ThreadCheck(b, t) ==
  /\ ~threads.atomic
  /\ threads.pc[b] = "idle"
  /\ IF tstatus[t] = AVAILABLE
     THEN /\ threads' = [threads EXCEPT !.pc[b] = "set_buyer",
                                        !.ticket[b] = t]
          /\ UNCHANGED call
     ELSE /\ threads' = [threads EXCEPT !.pc[b] = "done", !.ticket[b] = t,
                                        !.ret[b] = FALSE]
          /\ Called("purchase", t, <<b>>, FALSE)
  /\ UNCHANGED <<zones, eventZones, tstatus, tbuyer, btickets, borders,
                 orders, payments, refunds>>

\* `self.__buyer = buyer`
ThreadSetBuyer(b) ==
  /\ threads.pc[b] = "set_buyer"
  /\ tbuyer' = [tbuyer EXCEPT ![threads.ticket[b]] = b]
  /\ threads' = [threads EXCEPT !.pc[b] = "set_status"]
  /\ UNCHANGED <<zones, eventZones, tstatus, btickets, borders, orders,
                 payments, refunds, call>>

\* `self.__status = TicketStatus.SOLD`
ThreadSetStatus(b) ==
  /\ threads.pc[b] = "set_status"
  /\ tstatus' = [tstatus EXCEPT ![threads.ticket[b]] = SOLD]
  /\ threads' = [threads EXCEPT !.pc[b] = "append"]
  /\ UNCHANGED <<zones, eventZones, tbuyer, btickets, borders, orders,
                 payments, refunds, call>>

\* `buyer.tickets.append(self)` and `return True`
ThreadAppend(b) ==
  /\ threads.pc[b] = "append"
  /\ btickets' = [btickets EXCEPT ![b] = Append(@, threads.ticket[b])]
  /\ threads' = [threads EXCEPT !.pc[b] = "done", !.ret[b] = TRUE]
  /\ Called("purchase", threads.ticket[b], <<b>>, TRUE)
  /\ UNCHANGED <<zones, eventZones, tstatus, tbuyer, borders, orders,
                 payments, refunds>>

\* ---------------------------------------------------------- specifications
\* Buyers buying and refunding: a VIP zone of two tickets and a Regular zone
\* of one, as test_ticket_purchase builds them (scaled down).
Init == InitWith(<<<<"VIP", 2, 150>>, <<"Regular", 1, 50>>>>)

Next ==
  \/ \E t \in Tickets, b \in Buyers : DoTicketPurchase(t, b)
  \/ \E t \in Tickets : DoTicketRefund(t)
  \/ \E b \in Buyers, ty \in ZoneTypes, q \in Quantities :
       DoPurchaseTickets(b, ty, q)
  \/ \E b \in Buyers, id \in TicketIds : DoRequestRefund(b, id)

Spec == Init /\ [][Next]_vars

\* Zone.get_available_tickets over every mix of ticket statuses of one zone.
InitZone == InitWith(<<<<"VIP", MaxCapacity + 1, 150>>>>)

NextZone ==
  \/ \E t \in Tickets, b \in Buyers : DoTicketPurchase(t, b)
  \/ \E t \in Tickets : DoTicketRefund(t)
  \/ \E z \in 1..Len(zones), q \in Quantities : DoGetAvailableTickets(z, q)

SpecZone == InitZone /\ [][NextZone]_vars

\* Orders built by the client (Order, add_ticket, complete_order,
\* cancel_order) next to purchases, over a VIP zone and a Regular zone of
\* one ticket each.
InitOrder == InitWith(<<<<"VIP", 1, 150>>, <<"Regular", 1, 50>>>>)

NextOrder ==
  \/ \E t \in Tickets, b \in Buyers : DoTicketPurchase(t, b)
  \/ \E t \in Tickets : DoTicketRefund(t)
  \/ \E b \in Buyers, ty \in ZoneTypes, q \in Quantities :
       DoPurchaseTickets(b, ty, q)
  \/ \E b \in Buyers : DoNewOrder(b)
  \/ \E o \in 1..Len(orders), t \in Tickets : DoAddTicket(o, t)
  \/ \E o \in 1..Len(orders) : DoCompleteOrder(o)
  \/ \E o \in 1..Len(orders) : DoCancelOrder(o)

SpecOrder == InitOrder /\ [][NextOrder]_vars

\* Refund requests built by the client (RefundRequest, approve_refund,
\* reject_refund) next to request_refund, over the same two zones.
InitRefund == InitWith(<<<<"VIP", 1, 150>>, <<"Regular", 1, 50>>>>)

NextRefund ==
  \/ \E t \in Tickets, b \in Buyers : DoTicketPurchase(t, b)
  \/ \E t \in Tickets : DoTicketRefund(t)
  \/ \E b \in Buyers, id \in TicketIds : DoRequestRefund(b, id)
  \/ \E t \in Tickets, b \in Buyers : DoNewRefundRequest(t, b)
  \/ \E r \in 1..Len(refunds) : DoApproveRefund(r)
  \/ \E r \in 1..Len(refunds) : DoRejectRefund(r)

SpecRefund == InitRefund /\ [][NextRefund]_vars

\* Every public operation on tickets, orders and refund requests, over one
\* zone of one ticket.
InitAll == InitWith(<<<<"VIP", 1, 150>>>>)

NextAll ==
  \/ \E t \in Tickets, b \in Buyers : DoTicketPurchase(t, b)
  \/ \E t \in Tickets : DoTicketRefund(t)
  \/ \E b \in Buyers, ty \in ZoneTypes, q \in Quantities :
       DoPurchaseTickets(b, ty, q)
  \/ \E b \in Buyers, id \in TicketIds : DoRequestRefund(b, id)
  \/ \E b \in Buyers : DoNewOrder(b)
  \/ \E o \in 1..Len(orders), t \in Tickets : DoAddTicket(o, t)
  \/ \E o \in 1..Len(orders) : DoCompleteOrder(o)
  \/ \E o \in 1..Len(orders) : DoCancelOrder(o)
  \/ \E t \in Tickets, b \in Buyers : DoNewRefundRequest(t, b)
  \/ \E r \in 1..Len(refunds) : DoApproveRefund(r)
  \/ \E r \in 1..Len(refunds) : DoRejectRefund(r)

SpecAll == InitAll /\ [][NextAll]_vars

\* Zones added to an event that starts with none, and tickets bought from
\* them.
InitEvent == InitWith(<<>>)

NextEvent ==
  \/ \E ty \in ZoneTypes, c \in Capacities, p \in Prices : DoAddZone(ty, c, p)
  \/ \E ty \in ZoneTypes, k \in PctQuarters, p \in Prices :
       DoAddZoneWithPercentage(ty, k, p)
  \/ \E t \in Tickets, b \in Buyers : DoTicketPurchase(t, b)
  \/ \E z \in 1..Len(zones), q \in Quantities : DoGetAvailableTickets(z, q)

SpecEvent == InitEvent /\ [][NextEvent]_vars

\* Payments built and processed by the client: one VIP ticket, one order.
InitPayment == InitWith(<<<<"VIP", 1, 150>>>>)

NextPayment ==
  \/ \E t \in Tickets, b \in Buyers : DoTicketPurchase(t, b)
  \/ \E b \in Buyers : DoNewOrder(b)
  \/ \E o \in 1..Len(orders), t \in Tickets : DoAddTicket(o, t)
  \/ \E o \in 1..Len(orders) : DoNewPayment(o)
  \/ \E p \in 1..Len(payments), success \in BOOLEAN :
       DoProcessPayment(p, success)

SpecPayment == InitPayment /\ [][NextPayment]_vars

\* The minimal variant: a VIP zone of two tickets, buyers buying tickets and
\* refund requests approved any number of times.
InitMain ==
  /\ zones = <<MainNewZone(1, "VIP", 2, 150)>>
  /\ eventZones = EventOf(zones)
  /\ tstatus = [t \in Range(zones[1].tickets) |-> AVAILABLE]
  /\ tbuyer = [t \in DOMAIN tstatus |-> None]
  /\ btickets = [b \in Buyers |-> <<>>]
  /\ borders = [b \in Buyers |-> <<>>]
  /\ orders = <<>>
  /\ payments = <<>>
  /\ refunds = <<>>
  /\ call = [op |-> "init", self |-> None, args |-> <<>>, ret |-> None]
  /\ threads = NoThreads(TRUE)

NextMain ==
  \/ \E b \in Buyers, t \in Tickets : DoMainBuyerPurchase(b, t)
  \/ \E t \in Tickets, b \in Buyers : DoMainTicketPurchase(t, b)
  \/ \E t \in Tickets : DoMainTicketRefund(t)
  \/ \E t \in Tickets, b \in Buyers : DoMainNewRefundRequest(t, b)
  \/ \E r \in 1..Len(refunds) : DoMainApproveRefund(r)

SpecMain == InitMain /\ [][NextMain]_vars

\* Two buyers' threads calling Ticket.purchase on the tickets of one VIP
\* zone, one call each, every call either one step (atomic) or statement by
\* statement.
InitRace ==
  /\ zones = <<NewZone(1, "VIP", 2, 150)>>
  /\ eventZones = EventOf(zones)
  /\ tstatus = [t \in Range(zones[1].tickets) |-> AVAILABLE]
  /\ tbuyer = [t \in DOMAIN tstatus |-> None]
  /\ btickets = [b \in Buyers |-> <<>>]
  /\ borders = [b \in Buyers |-> <<>>]
  /\ orders = <<>>
  /\ payments = <<>>
  /\ refunds = <<>>
  /\ call = [op |-> "init", self |-> None, args |-> <<>>, ret |-> None]
  /\ \E atomic \in BOOLEAN : threads = NoThreads(atomic)

NextRace ==
  \/ \E b \in Buyers, t \in Tickets : ThreadPurchase(b, t)
  \/ \E b \in Buyers, t \in Tickets : ThreadCheck(b, t)
  \/ \E b \in Buyers : ThreadSetBuyer(b)
  \/ \E b \in Buyers : ThreadSetStatus(b)
  \/ \E b \in Buyers : ThreadAppend(b)

SpecRace == InitRace /\ [][NextRace]_vars

\* ------------------------------------------------------------------ claims
Available(z) == {t \in Range(zones[z].tickets) : tstatus[t] = AVAILABLE}

\* C1: when the zone registered under zone_type has at least q >= 1
\* Available tickets, purchase_tickets(event, zone_type, q) returns an Order
\* that is Completed, holds exactly q tickets, has total_price q * zone
\* price, and each of its tickets is Sold and was appended to the buyer's
\* tickets list, which grows by exactly q.
C1_PurchaseTicketsSucceeds ==
  [][call'.op = "purchase_tickets" =>
       LET b == call'.self
           q == call'.args[2]
           z == eventZones[call'.args[1]]
           o == call'.ret
       IN  (q >= 1 /\ z # NoObj /\ Cardinality(Available(z)) >= q) =>
             /\ o # NoObj
             /\ orders'[o].status = COMPLETED
             /\ Len(orders'[o].tickets) = q
             /\ orders'[o].total_price = q * zones[z].price
             /\ \A i \in 1..q : tstatus'[orders'[o].tickets[i]] = SOLD
             /\ btickets'[b] = btickets[b] \o orders'[o].tickets
             /\ Len(btickets'[b]) = Len(btickets[b]) + q]_vars

C1_Witness ==
  /\ call.op = "purchase_tickets"
  /\ call.args[2] = 2
  /\ call.ret # NoObj
  /\ orders[call.ret].status = COMPLETED
  /\ Len(orders[call.ret].tickets) = 2
  /\ \A i \in 1..2 : tstatus[orders[call.ret].tickets[i]] = SOLD

\* C2: purchase_tickets with a quantity larger than the number of Available
\* tickets of the looked-up zone returns no Order and leaves every ticket's
\* status and buyer and the buyer's tickets and orders lists unchanged.
C2_PurchaseTicketsInsufficient ==
  [][call'.op = "purchase_tickets" =>
       LET q == call'.args[2]
           z == eventZones[call'.args[1]]
       IN  (z # NoObj /\ q > Cardinality(Available(z))) =>
             /\ call'.ret = NoObj
             /\ UNCHANGED <<tstatus, tbuyer, btickets, borders>>]_vars

C2_Witness ==
  /\ call.op = "purchase_tickets"
  /\ call.args = <<"VIP", 3>>
  /\ call.ret = NoObj
  /\ Cardinality(Available(eventZones["VIP"])) = 1

\* C3: for every ticket t of the buyer's tickets list whose status is Sold,
\* request_refund(t.id) returns a RefundRequest that is Approved and leaves
\* t Refunded.
C3_RequestRefundRefundsTicket ==
  [][call'.op = "request_refund" =>
       LET b == call'.self
           id == call'.args[1]
       IN  \A t \in Range(btickets[b]) :
             (t[2] = id /\ tstatus[t] = SOLD) =>
               /\ call'.ret # NoObj
               /\ refunds'[call'.ret].status = APPROVED
               /\ tstatus'[t] = REFUNDED]_vars

\* C10: Ticket.purchase(buyer) returns true, sets the status to Sold and
\* records the buyer exactly when the ticket is Available; otherwise it
\* returns false and leaves the ticket's status, its buyer and every buyer's
\* tickets list unchanged.
C10_TicketPurchase ==
  [][call'.op = "purchase" =>
       LET t == call'.self
           b == call'.args[1]
       IN  IF tstatus[t] = AVAILABLE
           THEN /\ call'.ret = TRUE
                /\ tstatus'[t] = SOLD
                /\ tbuyer'[t] = b
           ELSE /\ call'.ret = FALSE
                /\ UNCHANGED <<tstatus, tbuyer, btickets>>]_vars

C10_Witness ==
  /\ call.op = "purchase"
  /\ call.ret = FALSE
  /\ tstatus[call.self] = REFUNDED
  /\ tbuyer[call.self] # call.args[1]

\* C4: approve_refund on a request whose ticket is not Sold fails: it
\* returns false, the request does not become Approved and the ticket's
\* status is unchanged.
C4_ApproveNeedsSoldTicket ==
  [][call'.op = "approve_refund" =>
       LET r == call'.self
           t == refunds[r].ticket
       IN  tstatus[t] # SOLD =>
             /\ call'.ret = FALSE
             /\ (refunds'[r].status = APPROVED => refunds[r].status = APPROVED)
             /\ tstatus'[t] = tstatus[t]]_vars

\* position of a status on the line Available -> Sold -> Refunded
Rank(st) == IF st = AVAILABLE THEN 0 ELSE IF st = SOLD THEN 1 ELSE 2

\* C5: a ticket's status only moves forward along Available -> Sold ->
\* Refunded, and Order.cancel_order is the only operation that moves a
\* ticket back to Available.
C5_StatusMonotonic ==
  [][\A t \in Tickets :
       /\ call'.op # "cancel_order" => Rank(tstatus'[t]) >= Rank(tstatus[t])
       /\ Rank(tstatus'[t]) < Rank(tstatus[t]) =>
            /\ call'.op = "cancel_order"
            /\ tstatus'[t] = AVAILABLE]_vars

C5_Witness ==
  /\ call.op = "cancel_order"
  /\ call.ret = TRUE
  /\ \E t \in Tickets : tstatus[t] = AVAILABLE /\ tbuyer[t] # None
  /\ \E r \in 1..Len(refunds) : refunds[r].status = APPROVED

\* C6: for every integer n, get_available_tickets(n) returns at most n
\* tickets and every returned ticket is Available.
C6_AtMostQuantity ==
  call.op = "get_available_tickets" =>
    /\ Len(call.ret) <= call.args[1]
    /\ \A i \in 1..Len(call.ret) : tstatus[call.ret[i]] = AVAILABLE

\* C7: for n >= 0, get_available_tickets(n) returns exactly the first
\* min(n, number of Available tickets) Available tickets of the zone in
\* increasing ticket-id order, and changes no ticket's status.
C7_FirstFit ==
  [][(call'.op = "get_available_tickets" /\ call'.args[1] >= 0) =>
       LET z == call'.self
           n == call'.args[1]
           got == call'.ret
       IN  /\ Len(got) = Min(n, Cardinality(Available(z)))
           /\ Range(got) \subseteq Available(z)
           /\ \A i \in 1..Len(got), j \in 1..Len(got) :
                i < j => got[i][2] < got[j][2]
           /\ \A t \in Available(z) \ Range(got) :
                \A i \in 1..Len(got) : got[i][2] < t[2]
           /\ tstatus' = tstatus]_vars

C7_Witness ==
  /\ call.op = "get_available_tickets"
  /\ call.args[1] = 1
  /\ Len(call.ret) = 1
  /\ call.ret[1][2] = 2
  /\ Cardinality(Available(call.self)) = 2

\* sum of the zone prices of a list of tickets
RECURSIVE SumPrices(_)
SumPrices(ts) ==
  IF Len(ts) = 0 THEN 0 ELSE zones[ts[1][1]].price + SumPrices(Tail(ts))

\* C8: an Order's total_price equals the sum of the zone prices of the
\* tickets it holds, counted with multiplicity, and Order.add_ticket is the
\* only operation that changes the ticket list or the total_price of an
\* order.
C8_TotalPrice ==
  /\ [](\A o \in 1..Len(orders) :
          orders[o].total_price = SumPrices(orders[o].tickets))
  /\ [][\A o \in 1..Len(orders) :
          (\/ orders'[o].tickets # orders[o].tickets
           \/ orders'[o].total_price # orders[o].total_price) =>
            (call'.op = "add_ticket" /\ call'.self = o)]_vars

C8_Witness ==
  \E o \in 1..Len(orders) :
    /\ call.op = "add_ticket"
    /\ call.self = o
    /\ Len(orders[o].tickets) = 2
    /\ orders[o].tickets[1][1] # orders[o].tickets[2][1]
    /\ orders[o].total_price = 200

\* C9: cancel_order on a Pending order returns true, makes the order
\* Canceled and every ticket it holds Available; on a Completed or Canceled
\* order it returns false and changes neither the order's status nor any
\* ticket's status.
C9_CancelOrder ==
  [][call'.op = "cancel_order" =>
       LET o == call'.self
       IN  IF orders[o].status = PENDING
           THEN /\ call'.ret = TRUE
                /\ orders'[o].status = CANCELED
                /\ \A t \in Range(orders[o].tickets) : tstatus'[t] = AVAILABLE
           ELSE /\ call'.ret = FALSE
                /\ orders'[o].status = orders[o].status
                /\ tstatus' = tstatus]_vars

C9_Witness ==
  /\ call.op = "cancel_order"
  /\ call.ret = TRUE
  /\ orders[call.self].status = CANCELED
  /\ Cardinality(Range(orders[call.self].tickets)) = 2
  /\ \A t \in Range(orders[call.self].tickets) :
       tstatus[t] = AVAILABLE /\ tbuyer[t] # None

\* C11: in every reachable state a ticket has a recorded buyer if and only
\* if its status is not Available.
C11_BuyerIffNotAvailable ==
  \A t \in Tickets : (tbuyer[t] # None) <=> (tstatus[t] # AVAILABLE)

\* C12: every Zone holds exactly as many tickets as the capacity it was
\* constructed with, whatever integer that is, at construction and after
\* every later operation.
C12_TicketCountIsCapacity ==
  \A z \in 1..Len(zones) : Len(zones[z].tickets) = zones[z].capacity

\* floor of num/den, den > 0
Floor(num, den) == num \div den

\* C13: add_zone_with_percentage(type, pct, price) registers under the key
\* `type` a Zone whose ticket count is exactly floor(hall.capacity * pct),
\* with every ticket Available and priced at `price`.
C13_ZoneOfPercentage ==
  [][call'.op = "add_zone_with_percentage" =>
       LET z == eventZones'[call'.args[1]]
       IN  /\ z # NoObj
           /\ zones'[z].type = call'.args[1]
           /\ Len(zones'[z].tickets) = Floor(HallCapacity * call'.args[2], 4)
           /\ zones'[z].price = call'.args[3]
           /\ \A t \in Range(zones'[z].tickets) : tstatus'[t] = AVAILABLE]_vars

\* C14: an Order starts Pending; once it is Completed or Canceled no step
\* changes its status again, and complete_order and cancel_order each
\* return false when the order is not Pending.
C14_OrderStatusTerminal ==
  [][/\ call'.op = "Order" => orders'[call'.ret].status = PENDING
     /\ \A o \in 1..Len(orders) :
          orders[o].status \in {COMPLETED, CANCELED}
            => orders'[o].status = orders[o].status
     /\ call'.op \in {"complete_order", "cancel_order"}
          /\ orders[call'.self].status # PENDING
          => call'.ret = FALSE]_vars

\* complete_order was called on a Canceled order and cancel_order can be
\* called on it again
C14_Witness ==
  /\ call.op = "complete_order"
  /\ call.ret = FALSE
  /\ orders[call.self].status = CANCELED
  /\ orders[call.self].tickets # <<>>

\* the positions of order o in the orders list of buyer b
Listed(b, o) == {i \in DOMAIN borders[b] : borders[b][i] = o}

\* an order is in its buyer's orders list exactly when it is Completed,
\* at most once, and in no other buyer's list
OrdersListInv ==
  \A o \in 1..Len(orders) :
    /\ (Listed(orders[o].buyer, o) # {}) <=> (orders[o].status = COMPLETED)
    /\ Cardinality(Listed(orders[o].buyer, o)) <= 1
    /\ \A b \in Buyers \ {orders[o].buyer} : Listed(b, o) = {}

\* C15 (as stated): an Order is in its buyer's orders list if and only if
\* it is Completed, and at most once; an order whose complete_order call
\* reported failure has status Pending and is not in the list.
C15_FailedOrderIsPending ==
  /\ []OrdersListInv
  /\ [][call'.op = "complete_order" /\ call'.ret = FALSE =>
          LET o == call'.self
          IN  /\ orders'[o].status = PENDING
              /\ o \notin Range(borders'[orders[o].buyer])]_vars

\* C15 (amended): an Order is in its buyer's orders list if and only if it
\* is Completed, and at most once; complete_order reports failure only for
\* an order that was already Completed or Canceled, and leaves every order
\* and every orders list as it was.
C15_FailedOrderUnchanged ==
  /\ []OrdersListInv
  /\ [][call'.op = "complete_order" /\ call'.ret = FALSE =>
          /\ orders[call'.self].status \in {COMPLETED, CANCELED}
          /\ UNCHANGED <<orders, borders, payments>>]_vars

\* complete_order reported failure on an order that is Completed and in
\* its buyer's list
C15_Witness ==
  /\ call.op = "complete_order"
  /\ call.ret = FALSE
  /\ orders[call.self].status = COMPLETED
  /\ Listed(orders[call.self].buyer, call.self) # {}

\* C16: a Payment's status moves only from Pending to Completed or from
\* Pending to Failed; once Completed or Failed no process_payment call,
\* with either value of `success`, changes it.
C16_PaymentStatusTerminal ==
  [][\A p \in 1..Len(payments) :
       payments'[p].status # payments[p].status
         => /\ payments[p].status = PENDING
            /\ payments'[p].status \in {COMPLETED, FAILED}]_vars

\* C17: a RefundRequest that is Approved or Rejected never changes status
\* again; approve_refund and reject_refund change the status and return
\* true only from Pending and return false otherwise, and reject_refund
\* never changes a ticket's status.
C17_RefundStatusTerminal ==
  [][/\ \A r \in 1..Len(refunds) :
          refunds[r].status \in {APPROVED, REJECTED}
            => refunds'[r].status = refunds[r].status
     /\ call'.op \in {"approve_refund", "reject_refund"} =>
          LET r == call'.self
          IN  IF refunds[r].status = PENDING
              THEN /\ call'.ret = TRUE
                   /\ refunds'[r].status =
                        IF call'.op = "approve_refund"
                        THEN APPROVED ELSE REJECTED
              ELSE /\ call'.ret = FALSE
                   /\ refunds' = refunds
     /\ call'.op = "reject_refund" => tstatus' = tstatus]_vars

\* reject_refund was called on an Approved request whose ticket is Refunded
C17_Witness ==
  /\ call.op = "reject_refund"
  /\ call.ret = FALSE
  /\ refunds[call.self].status = APPROVED
  /\ tstatus[refunds[call.self].ticket] = REFUNDED

\* C18: in the minimal variant a RefundRequest's decision is final: once
\* approve_refund has set it to Approved or to Rejected, a further
\* approve_refund call leaves the request's status unchanged.
C18_MainDecisionFinal ==
  [][call'.op = "approve_refund"
       /\ refunds[call'.self].status \in {APPROVED, REJECTED}
       => refunds'[call'.self].status = refunds[call'.self].status]_vars

\* the buyers whose call of purchase on ticket t returned true
Winners(t) ==
  {b \in Buyers : /\ threads.pc[b] = "done"
                   /\ threads.ticket[b] = t
                   /\ threads.ret[b] = TRUE}

\* C19: when two buyers call Ticket.purchase on the same Available ticket
\* and each call is one atomic step, at most one of them returns true (and
\* the ticket is in one buyer's list only); with the check and the writes
\* as separate steps the double sale of C19_Witness is reachable.
C19_AtomicPurchaseOnce ==
  threads.atomic =>
    \A t \in Tickets :
      /\ Cardinality(Winners(t)) <= 1
      /\ Cardinality({b \in Buyers : t \in Range(btickets[b])}) <= 1

\* the double sale: with separate steps both buyers' calls on one ticket
\* returned true and the ticket is in both buyers' lists
C19_Witness ==
  /\ ~threads.atomic
  /\ \E t \in Tickets :
       /\ Winners(t) = Buyers
       /\ \A b \in Buyers : t \in Range(btickets[b])
       /\ tstatus[t] = SOLD

\* with atomic calls both buyers called purchase on the same ticket and
\* exactly one of them returned true
C19_AtomicWitness ==
  /\ threads.atomic
  /\ \E t \in Tickets :
       /\ \A b \in Buyers : threads.pc[b] = "done" /\ threads.ticket[b] = t
       /\ Cardinality(Winners(t)) = 1

\* C20: executed one call at a time, purchase_tickets is all-or-nothing:
\* whenever it returns no Order, no ticket's status or buyer and no buyer's
\* tickets or orders list has changed, and no Order or Payment was built
\* (the branch that aborts after a failed Ticket.purchase is never taken).
C20_AllOrNothing ==
  [][call'.op = "purchase_tickets" /\ call'.ret = NoObj =>
       UNCHANGED <<tstatus, tbuyer, btickets, borders, orders,
                   payments>>]_vars

\* purchase_tickets returned no Order for a quantity the zone could hold,
\* after some of the zone's tickets were sold and one was refunded
C20_Witness ==
  /\ call.op = "purchase_tickets"
  /\ call.ret = NoObj
  /\ call.args = <<"VIP", 2>>
  /\ Cardinality(Available(eventZones["VIP"])) = 1
  /\ \E t \in Range(zones[eventZones["VIP"]].tickets) : tstatus[t] = REFUNDED

\* the places (buyer, position) where ticket t sits in a tickets list
Holdings(t) ==
  UNION {{<<b, i>> : i \in {j \in DOMAIN btickets[b] : btickets[b][j] = t}}
           : b \in Buyers}

\* C21: every ticket appears at most once across all buyers' tickets
\* lists, and a ticket in a buyer's tickets list has that buyer as its
\* recorded buyer.
C21_TicketListedOnce ==
  \A t \in Tickets :
    /\ Cardinality(Holdings(t)) <= 1
    /\ \A b \in Buyers : t \in Range(btickets[b]) => tbuyer[t] = b

\* C22: request_refund only changes the status of a ticket whose recorded
\* buyer is the calling buyer, and when it returns no RefundRequest no
\* ticket's status changes.
C22_RefundOnlyOwnTicket ==
  [][call'.op = "request_refund" =>
       /\ \A t \in Tickets :
            tstatus'[t] # tstatus[t] => tbuyer[t] = call'.self
       /\ call'.ret = NoObj => tstatus' = tstatus]_vars

====
